---------------------------- MODULE Spec2Model ----------------------------
(***************************************************************************)
(* SoundPrinter: spectral peak extraction (extractAudioFeatures), the      *)
(* fingerprint codec (generateFingerprint / the split-and-parse at the top *)
(* of calculateSimilarity), the similarity scorer (calculateSimilarity)    *)
(* and the audio router's store (createFingerprint / identifyAudio).       *)
(*                                                                         *)
(* Number representation (all exact, integer arithmetic):                  *)
(*   - a JavaScript string is a sequence of one-character strings;         *)
(*   - a number parsed from a fingerprint field is a record                *)
(*     [nan |-> BOOLEAN, v |-> Int] where v is the value in thousandths;   *)
(*   - an amplitude held in memory is an integer number of thousandths;    *)
(*   - a frequency held in memory is an integer number of 1/FFT_SIZE Hz    *)
(*     (bin i is exactly i * SAMPLE_RATE of these units);                  *)
(*   - a time held in memory is an integer number of samples, that is      *)
(*     1/SAMPLE_RATE seconds (chunk offset `offset` is exactly `offset`).  *)
(* IEEE-754 rounding of the last bit is not modelled: comparisons are the  *)
(* comparisons of the exact real values.                                   *)
(***************************************************************************)
EXTENDS Integers, Sequences, FiniteSets, TLC

(***************************************************************************)
(* Program constants (src/src/lib/audio.ts lines 3-15).                    *)
(***************************************************************************)
SAMPLE_RATE == 44100
FFT_SIZE == 2048
\* MIN_FREQUENCY and MAX_FREQUENCY, in Hz (declared, read by no function)
MIN_FREQUENCY == 20
MAX_FREQUENCY == 8000
\* PEAK_THRESHOLD = 0.05, in thousandths
PEAK_THRESHOLD == 50
MIN_PEAKS == 5
MAX_PEAKS == 200
\* FREQUENCY_BANDS, in Hz, in declaration order: bass, mid, high
FREQUENCY_BANDS == << [min |-> 20, max |-> 300],
                      [min |-> 300, max |-> 2000],
                      [min |-> 2000, max |-> 8000] >>

(***************************************************************************)
(* Generic helpers.                                                        *)
(***************************************************************************)
Abs(x) == IF x < 0 THEN -x ELSE x

Max(a, b) == IF a >= b THEN a ELSE b

Range(s) == { s[i] : i \in DOMAIN s }

(***************************************************************************)
(* Strings as character sequences.                                         *)
(***************************************************************************)
Digits == <<"0", "1", "2", "3", "4", "5", "6", "7", "8", "9">>

IsDigit(c) == c \in Range(Digits)

DigitVal(c) == (CHOOSE i \in DOMAIN Digits : Digits[i] = c) - 1

\* String.prototype.split(sep) for a one-character separator: the pieces
\* between separators, so that "" splits into one empty piece.  SplitFrom
\* is the split of the part of s that starts at position from.
RECURSIVE SplitFrom(_, _, _)
SplitFrom(s, sep, from) ==
  LET seps == { i \in from..Len(s) : s[i] = sep }
  IN  IF seps = {} THEN << SubSeq(s, from, Len(s)) >>
      ELSE LET p == CHOOSE i \in seps : \A j \in seps : i <= j
           IN  << SubSeq(s, from, p - 1) >> \o SplitFrom(s, sep, p + 1)

Split(s, sep) == SplitFrom(s, sep, 1)

\* Array.prototype.join(sep): no separator before the first element.
RECURSIVE Join(_, _)
Join(parts, sep) ==
  IF Len(parts) = 0 THEN << >>
  ELSE IF Len(parts) = 1 THEN parts[1]
  ELSE parts[1] \o << sep >> \o Join(Tail(parts), sep)

\* Decimal digits of a natural number, no leading zero.
RECURSIVE NatToChars(_)
NatToChars(n) ==
  IF n < 10 THEN << Digits[n + 1] >>
  ELSE Append(NatToChars(n \div 10), Digits[(n % 10) + 1])

(***************************************************************************)
(* Number(string), for the characters the model's strings are made of:     *)
(* "" is 0, an optionally signed decimal literal (digits, digits.digits,   *)
(* digits. or .digits) is its value, anything else is NaN.                 *)
(***************************************************************************)
NaN == [nan |-> TRUE, v |-> 0]

Num(v) == [nan |-> FALSE, v |-> v]

RECURSIVE DigitsValue(_)
DigitsValue(s) ==
  IF Len(s) = 0 THEN 0
  ELSE 10 * DigitsValue(SubSeq(s, 1, Len(s) - 1)) + DigitVal(s[Len(s)])

\* The fraction digits as thousandths (the model's strings carry at most
\* three fraction digits).
FractionValue(s) ==
  LET d(i) == IF i <= Len(s) THEN DigitVal(s[i]) ELSE 0
  IN  100 * d(1) + 10 * d(2) + d(3)

UnsignedLiteral(s) ==
  LET parts == Split(s, ".")
      allDigits(p) == \A i \in DOMAIN p : IsDigit(p[i])
  IN  IF Len(parts) = 1
        THEN IF Len(s) > 0 /\ allDigits(s)
               THEN Num(1000 * DigitsValue(s)) ELSE NaN
      ELSE IF Len(parts) = 2
              /\ allDigits(parts[1]) /\ allDigits(parts[2])
              /\ Len(parts[1]) + Len(parts[2]) > 0
        THEN Num(1000 * DigitsValue(parts[1]) + FractionValue(parts[2]))
      ELSE NaN

ParseNumber(s) ==
  IF Len(s) = 0 THEN Num(0)
  ELSE IF s[1] = "-"
    THEN LET u == UnsignedLiteral(Tail(s))
         IN  IF u.nan THEN NaN ELSE Num(-u.v)
  ELSE IF s[1] = "+" THEN UnsignedLiteral(Tail(s))
  ELSE UnsignedLiteral(s)

(***************************************************************************)
(* calculateSimilarity (src/src/lib/audio.ts lines 196-228).               *)
(***************************************************************************)
\* f.split(":").map(Number), on the fields already split
RECURSIVE MapNumber(_)
MapNumber(fields) ==
  IF Len(fields) = 0 THEN << >>
  ELSE << ParseNumber(fields[1]) >> \o MapNumber(Tail(fields))

\* tokens.map(f => f.split(":").map(Number))
RECURSIVE MapTokens(_)
MapTokens(tokens) ==
  IF Len(tokens) = 0 THEN << >>
  ELSE << MapNumber(Split(tokens[1], ":")) >> \o MapTokens(Tail(tokens))

\* fingerprint.split("|").map(f => f.split(":").map(Number))
ParseFeatures(fingerprint) == MapTokens(Split(fingerprint, "|"))

\* const [peak, freq, time] = feature; some of them undefined
HasUndefined(feature) == Len(feature) < 3

\* FeaturesMatch without the Math.abs: signed differences
FeaturesMatchSigned(feature1, feature2) ==
  /\ ~feature1[1].nan /\ ~feature1[2].nan /\ ~feature1[3].nan
  /\ ~feature2[1].nan /\ ~feature2[2].nan /\ ~feature2[3].nan
  /\ 100 * (feature1[1].v - feature2[1].v)
       + (feature1[2].v - feature2[2].v)
       + 200 * (feature1[3].v - feature2[3].v) < 90000

\* FeaturesMatch with the frequency difference divided by 10, not by 100
FeaturesMatchPerTenHertz(feature1, feature2) ==
  /\ ~feature1[1].nan /\ ~feature1[2].nan /\ ~feature1[3].nan
  /\ ~feature2[1].nan /\ ~feature2[2].nan /\ ~feature2[3].nan
  /\ 100 * Abs(feature1[1].v - feature2[1].v)
       + 10 * Abs(feature1[2].v - feature2[2].v)
       + 200 * Abs(feature1[3].v - feature2[3].v) < 90000

\* similarity > 0.7 with
\*   similarity = ((1 - |dp|) + (1 - |df| / 100) + (1 - |dt| / 0.5)) / 3,
\* in thousandths: 100 |dp| + |df| + 200 |dt| < 90000; NaN compares false.
FeaturesMatch(feature1, feature2) ==
  /\ ~feature1[1].nan /\ ~feature1[2].nan /\ ~feature1[3].nan
  /\ ~feature2[1].nan /\ ~feature2[2].nan /\ ~feature2[3].nan
  /\ 100 * Abs(feature1[1].v - feature2[1].v)
       + Abs(feature1[2].v - feature2[2].v)
       + 200 * Abs(feature1[3].v - feature2[3].v) < 90000

\* InnerLoop without the break: the scan goes on after a match.
RECURSIVE InnerLoopNoBreak(_, _, _, _)
InnerLoopNoBreak(features1, features2, i, j) ==
  IF j > Len(features2) THEN << >>
  ELSE IF HasUndefined(features2[j])
    THEN InnerLoopNoBreak(features1, features2, i, j + 1)
  ELSE IF FeaturesMatch(features1[i], features2[j])
    THEN << <<i, j>> >> \o InnerLoopNoBreak(features1, features2, i, j + 1)
  ELSE InnerLoopNoBreak(features1, features2, i, j + 1)

\* The inner loop for one feature1, from index j of features2: the pairs
\* <<i, j>> at which matches++ runs.  The break ends the scan at the first.
RECURSIVE InnerLoop(_, _, _, _)
InnerLoop(features1, features2, i, j) ==
  IF j > Len(features2) THEN << >>
  ELSE IF HasUndefined(features2[j])
    THEN InnerLoop(features1, features2, i, j + 1)
  ELSE IF FeaturesMatch(features1[i], features2[j])
    THEN << <<i, j>> >>
  ELSE InnerLoop(features1, features2, i, j + 1)

\* The outer loop from index i of features1.
RECURSIVE OuterLoop(_, _, _)
OuterLoop(features1, features2, i) ==
  IF i > Len(features1) THEN << >>
  ELSE IF HasUndefined(features1[i])
    THEN OuterLoop(features1, features2, i + 1)
  ELSE InnerLoop(features1, features2, i, 1)
         \o OuterLoop(features1, features2, i + 1)

\* Every <<i, j>> at which calculateSimilarity increments matches, in order.
MatchIncrements(fingerprint1, fingerprint2) ==
  OuterLoop(ParseFeatures(fingerprint1), ParseFeatures(fingerprint2), 1)

\* calculateSimilarity with total = features1.length
calculateSimilarityQueryTotal(fingerprint1, fingerprint2) ==
  LET features1 == ParseFeatures(fingerprint1)
      features2 == ParseFeatures(fingerprint2)
  IN  [ matches |-> Len(OuterLoop(features1, features2, 1)),
        total   |-> Len(features1) ]

\* calculateSimilarity with total = Math.min(...) in place of Math.max(...)
calculateSimilarityMinTotal(fingerprint1, fingerprint2) ==
  LET features1 == ParseFeatures(fingerprint1)
      features2 == ParseFeatures(fingerprint2)
  IN  [ matches |-> Len(OuterLoop(features1, features2, 1)),
        total   |-> IF Len(features1) <= Len(features2)
                      THEN Len(features1) ELSE Len(features2) ]

\* calculateSimilarity with total = features1.length + features2.length
calculateSimilaritySumTotal(fingerprint1, fingerprint2) ==
  LET features1 == ParseFeatures(fingerprint1)
      features2 == ParseFeatures(fingerprint2)
  IN  [ matches |-> Len(OuterLoop(features1, features2, 1)),
        total   |-> Len(features1) + Len(features2) ]

\* The returned number matches / total, kept as the pair.
calculateSimilarity(fingerprint1, fingerprint2) ==
  LET features1 == ParseFeatures(fingerprint1)
      features2 == ParseFeatures(fingerprint2)
  IN  [ matches |-> Len(OuterLoop(features1, features2, 1)),
        total   |-> Max(Len(features1), Len(features2)) ]

(***************************************************************************)
(* generateFingerprint (src/src/lib/audio.ts lines 175-194).               *)
(* features is [peaks, frequencies, timestamps]; an index past the end of  *)
(* frequencies or timestamps reads undefined.                              *)
(***************************************************************************)
TwoDigits(n) == << Digits[(n \div 10) + 1], Digits[(n % 10) + 1] >>

\* ToFixed2 cutting the digits after the second instead of rounding.
ToFixed2Truncating(peak) ==
  LET n == Abs(peak) \div 10
      sign == IF peak < 0 THEN << "-" >> ELSE << >>
  IN  sign \o NatToChars(n \div 100) \o << "." >> \o TwoDigits(n % 100)

\* peak.toFixed(2): the amplitude (thousandths) rounded to hundredths, ties
\* to the larger magnitude, printed with exactly two fraction digits.
ToFixed2(peak) ==
  LET n == (Abs(peak) + 5) \div 10
      sign == IF peak < 0 THEN << "-" >> ELSE << >>
  IN  sign \o NatToChars(n \div 100) \o << "." >> \o TwoDigits(n % 100)

\* String(k) for an integer k.
IntToChars(k) == IF k < 0 THEN << "-" >> \o NatToChars(-k) ELSE NatToChars(k)

\* Math.round(freq / 10) * 10, freq in 1/FFT_SIZE Hz, result in Hz.
\* Math.round(x) is floor(x + 1/2).
NormalizedFreq(freq) == ((freq + 5 * FFT_SIZE) \div (10 * FFT_SIZE)) * 10

\* Math.round(time * 10), time in samples: the normalized time in tenths of
\* a second (the code then divides by 10).
NormalizedTimeTenths(time) == (20 * time + SAMPLE_RATE) \div (2 * SAMPLE_RATE)

\* String(n / 10) for an integer n of tenths: "0", "0.1", "1", "1.2".
TenthsToChars(n) ==
  LET m == Abs(n)
      sign == IF n < 0 THEN << "-" >> ELSE << >>
  IN  sign \o NatToChars(m \div 10)
        \o (IF m % 10 = 0 THEN << >> ELSE << ".", Digits[(m % 10) + 1] >>)

\* `${normalizedPeak}:${normalizedFreq}:${normalizedTime}`
Token(peak, freq, time) ==
  ToFixed2(peak) \o << ":" >> \o IntToChars(NormalizedFreq(freq))
    \o << ":" >> \o TenthsToChars(NormalizedTimeTenths(time))

\* features.peaks.map(...): "" where frequencies[i] or timestamps[i] is
\* undefined.
MappedTokens(features) ==
  [ i \in 1..Len(features.peaks) |->
      IF i > Len(features.frequencies) \/ i > Len(features.timestamps)
        THEN << >>
        ELSE Token(features.peaks[i], features.frequencies[i],
                   features.timestamps[i]) ]

NonEmptyString(s) == Len(s) > 0

\* generateFingerprint without the .filter(Boolean)
generateFingerprintNoFilter(features) == Join(MappedTokens(features), "|")

\* .filter(Boolean).join("|")
generateFingerprint(features) ==
  Join(SelectSeq(MappedTokens(features), NonEmptyString), "|")

(***************************************************************************)
(* extractAudioFeatures (src/src/lib/audio.ts lines 25-173).               *)
(*                                                                         *)
(* The analyser is the environment: every getFloatFrequencyData call       *)
(* delivers some spectrum.  A spectrum is given by the linear amplitude    *)
(* 10^(dB/20), in thousandths, of each bin of ModelBins (in bin order);    *)
(* every other bin is at amplitude 0.  The analysed clip is                *)
(*   [length   |-> audioData.length,                                       *)
(*    spectra  |-> the spectrum delivered to each pass of the chunk loop,  *)
(*    fallback |-> the spectrum delivered to findAdditionalPeaks].         *)
(***************************************************************************)
\* The bins the model's spectra may excite, ascending: 0 Hz (below every
\* band), 21.5 Hz and 43.1 Hz (bass), 301.5 Hz (mid), 2002.6 Hz (high),
\* 8010.4 Hz (above every band).
ModelBins == << 0, 1, 2, 14, 93, 372 >>

\* i * SAMPLE_RATE / FFT_SIZE, in 1/FFT_SIZE Hz
BinFrequency(i) == i * SAMPLE_RATE

\* TIME_WINDOW = 0.05 s, in samples
TIME_WINDOW == 2205

\* The number of passes of `for (offset = 0; offset < length; offset += chunkSize)`
ChunkCount(length) == (length + FFT_SIZE - 1) \div FFT_SIZE

\* FREQUENCY_BANDS.find(b => frequency >= b.min && frequency <= b.max): the
\* index of the first band holding the frequency, 0 for undefined.
RECURSIVE FindBandFrom(_, _)
FindBandFrom(frequency, b) ==
  IF b > Len(FREQUENCY_BANDS) THEN 0
  ELSE IF /\ frequency >= FREQUENCY_BANDS[b].min * FFT_SIZE
          /\ frequency <= FREQUENCY_BANDS[b].max * FFT_SIZE
    THEN b
  ELSE FindBandFrom(frequency, b + 1)

FindBand(frequency) == FindBandFrom(frequency, 1)

\* IsMainCandidate with the threshold findAdditionalPeaks is given
IsMainCandidateHalved(amplitude, frequency) ==
  FindBand(frequency) # 0 /\ 2 * amplitude > PEAK_THRESHOLD

\* IsMainCandidate with || for &&
IsMainCandidateEither(amplitude, frequency) ==
  FindBand(frequency) # 0 \/ amplitude > PEAK_THRESHOLD

\* if (band && amplitude > PEAK_THRESHOLD)
IsMainCandidate(amplitude, frequency) ==
  FindBand(frequency) # 0 /\ amplitude > PEAK_THRESHOLD

\* createBuffer(1, audioData.length, SAMPLE_RATE) (line 27) throws a
\* NotSupportedError for a length of 0: extractAudioFeatures ends there.
CreateBufferThrows(length) == length = 0

\* The passes of `for (offset = 0; offset < audioData.length; offset +=
\* chunkSize)` (lines 50-52): each makes one getFloatFrequencyData call, the
\* calls-th from 1, and takes time = offset / SAMPLE_RATE (here in samples).
RECURSIVE FramesFrom(_, _, _)
FramesFrom(clip, offset, calls) ==
  IF offset < clip.length
    THEN << [ offset |-> offset, time |-> offset,
              spectrum |-> clip.spectra[calls] ] >>
           \o FramesFrom(clip, offset + FFT_SIZE, calls + 1)
    ELSE << >>

Frames(clip) == FramesFrom(clip, 0, 1)

\* The peaks one pass of the chunk loop (the frame at `time`) pushes to
\* band b, in bin order.
RECURSIVE ChunkBandPeaks(_, _, _, _)
ChunkBandPeaks(spectrum, time, b, n) ==
  IF n > Len(ModelBins) THEN << >>
  ELSE LET frequency == BinFrequency(ModelBins[n])
           amplitude == spectrum[n]
           rest == ChunkBandPeaks(spectrum, time, b, n + 1)
       IN  IF IsMainCandidate(amplitude, frequency) /\ FindBand(frequency) = b
             THEN << [amplitude |-> amplitude, frequency |-> frequency,
                      time |-> time] >> \o rest
             ELSE rest

\* bandPeaks[b] after the chunk loop: frame after frame.
RECURSIVE BandPeaksFrom(_, _, _)
BandPeaksFrom(frames, b, k) ==
  IF k > Len(frames) THEN << >>
  ELSE ChunkBandPeaks(frames[k].spectrum, frames[k].time, b, 1)
         \o BandPeaksFrom(frames, b, k + 1)

BandPeaks(clip, b) == BandPeaksFrom(Frames(clip), b, 1)

\* bandPeaks.sort((a, b) => b.amplitude - a.amplitude): stable, amplitude
\* descending (an element goes after every element not smaller than it).
RECURSIVE InsertByAmplitude(_, _)
InsertByAmplitude(sorted, peak) ==
  IF Len(sorted) = 0 THEN << peak >>
  ELSE IF sorted[1].amplitude >= peak.amplitude
    THEN << sorted[1] >> \o InsertByAmplitude(Tail(sorted), peak)
  ELSE << peak >> \o sorted

RECURSIVE SortByAmplitude(_)
SortByAmplitude(peaks) ==
  IF Len(peaks) = 0 THEN << >>
  ELSE InsertByAmplitude(SortByAmplitude(SubSeq(peaks, 1, Len(peaks) - 1)),
                         peaks[Len(peaks)])

\* Math.floor(peak.time / TIME_WINDOW)
WindowKey(peak) == peak.time \div TIME_WINDOW

\* WindowPicks with windowPeaks[windowPeaks.length - 1] for windowPeaks[0]
RECURSIVE WindowPicksLast(_, _)
WindowPicksLast(peaks, keys) ==
  IF keys = {} THEN << >>
  ELSE LET key == CHOOSE x \in keys : \A y \in keys : x <= y
           last == CHOOSE i \in DOMAIN peaks :
                     /\ WindowKey(peaks[i]) = key
                     /\ \A j \in DOMAIN peaks :
                          WindowKey(peaks[j]) = key => i >= j
       IN  << peaks[last] >> \o WindowPicksLast(peaks, keys \ {key})

\* Object.values(timeWindows) visits the integer keys ascending; each
\* window contributes windowPeaks[0], the first peak of the list that fell
\* into it.
RECURSIVE WindowPicks(_, _)
WindowPicks(peaks, keys) ==
  IF keys = {} THEN << >>
  ELSE LET key == CHOOSE x \in keys : \A y \in keys : x <= y
           first == CHOOSE i \in DOMAIN peaks :
                      /\ WindowKey(peaks[i]) = key
                      /\ \A j \in DOMAIN peaks :
                           WindowKey(peaks[j]) = key => i <= j
       IN  << peaks[first] >> \o WindowPicks(peaks, keys \ {key})

\* Slice0 that takes the last n elements, as slice(-n) does
SliceLast(s, n) ==
  SubSeq(s, Len(s) + 1 - (IF n < 0 THEN 0 ELSE IF n > Len(s) THEN Len(s) ELSE n),
         Len(s))

\* Array.prototype.slice(0, n)
Slice0(s, n) == SubSeq(s, 1, IF n < 0 THEN 0 ELSE IF n > Len(s) THEN Len(s) ELSE n)

\* `selected` after the Object.values(timeWindows).forEach (lines 147-163)
StrongestPerWindow(peaks) ==
  WindowPicks(peaks, { WindowKey(peaks[i]) : i \in DOMAIN peaks })

selectPeaksWithTimeDistribution(peaks) ==
  LET picked == StrongestPerWindow(peaks)
      remainingIdx == { i \in DOMAIN peaks : peaks[i] \notin Range(picked) }
      remainingPeaks ==
        [ n \in 1..Cardinality(remainingIdx) |->
            peaks[CHOOSE i \in remainingIdx :
                    Cardinality({ j \in remainingIdx : j < i }) = n - 1] ]
      selected == IF Len(picked) < MIN_PEAKS
                    THEN picked \o Slice0(remainingPeaks, MIN_PEAKS - Len(picked))
                    ELSE picked
  IN  Slice0(selected, MAX_PEAKS)

\* The peaks pushed by the Object.entries(bandPeaks).forEach of the main
\* pass: band after band, in declaration order.
RECURSIVE MainPeaksFrom(_, _)
MainPeaksFrom(clip, b) ==
  IF b > Len(FREQUENCY_BANDS) THEN << >>
  ELSE selectPeaksWithTimeDistribution(SortByAmplitude(BandPeaks(clip, b)))
         \o MainPeaksFrom(clip, b + 1)

MainPeaks(clip) == MainPeaksFrom(clip, 1)

\* findAdditionalPeaks(audioData, threshold), threshold = PEAK_THRESHOLD * 0.5:
\* every bin with amplitude > threshold, at time 0.
RECURSIVE AdditionalPeaksFrom(_, _)
AdditionalPeaksFrom(spectrum, n) ==
  IF n > Len(ModelBins) THEN << >>
  ELSE LET rest == AdditionalPeaksFrom(spectrum, n + 1)
       IN  IF 2 * spectrum[n] > PEAK_THRESHOLD
             THEN << [amplitude |-> spectrum[n],
                      frequency |-> BinFrequency(ModelBins[n]),
                      time |-> 0] >> \o rest
             ELSE rest

findAdditionalPeaks(clip) == AdditionalPeaksFrom(clip.fallback, 1)

\* FallbackRuns with peaks.length === 0
FallbackRunsWhenEmpty(clip) == Len(MainPeaks(clip)) = 0

\* if (peaks.length < MIN_PEAKS)
FallbackRuns(clip) == Len(MainPeaks(clip)) < MIN_PEAKS

\* The three arrays are pushed to separately, from the same peak lists.
AmplitudesOf(list) == [ i \in DOMAIN list |-> list[i].amplitude ]

FrequenciesOf(list) == [ i \in DOMAIN list |-> list[i].frequency ]

TimesOf(list) == [ i \in DOMAIN list |-> list[i].time ]

\* extractAudioFeatures without the timestamps.push of the fallback pass
extractAudioFeaturesNoFallbackTimes(clip) ==
  LET main == MainPeaks(clip)
      additionalPeaks == IF Len(main) < MIN_PEAKS
                           THEN findAdditionalPeaks(clip) ELSE << >>
  IN  [ peaks       |-> AmplitudesOf(main) \o AmplitudesOf(additionalPeaks),
        frequencies |-> FrequenciesOf(main) \o FrequenciesOf(additionalPeaks),
        timestamps  |-> TimesOf(main) ]

extractAudioFeatures(clip) ==
  LET main == MainPeaks(clip)
      additionalPeaks == IF FallbackRuns(clip)
                           THEN findAdditionalPeaks(clip) ELSE << >>
  IN  [ peaks       |-> AmplitudesOf(main) \o AmplitudesOf(additionalPeaks),
        frequencies |-> FrequenciesOf(main) \o FrequenciesOf(additionalPeaks),
        timestamps  |-> TimesOf(main) \o TimesOf(additionalPeaks) ]

\* What one band goes through in lines 74-79: the candidates as pushed,
\* after the sort, after the first phase of the selection, and the
\* selection returned.
BandSelection(candidates) ==
  LET sorted == SortByAmplitude(candidates)
  IN  [ candidates |-> candidates,
        sorted     |-> sorted,
        picked     |-> StrongestPerWindow(sorted),
        selected   |-> selectPeaksWithTimeDistribution(sorted) ]

NoBand == [ candidates |-> << >>, sorted |-> << >>, picked |-> << >>,
            selected |-> << >> ]

\* The intermediate values of one extractAudioFeatures call.
Analysis(clip) ==
  [ threw      |-> FALSE,
    frames     |-> Frames(clip),
    bands      |-> [ b \in DOMAIN FREQUENCY_BANDS |->
                       BandSelection(BandPeaks(clip, b)) ],
    main       |-> MainPeaks(clip),
    fallback   |-> FallbackRuns(clip),
    additional |-> IF FallbackRuns(clip) THEN findAdditionalPeaks(clip)
                   ELSE << >> ]

NoAnalysis == [ threw |-> FALSE, frames |-> << >>, bands |-> << >>,
                main |-> << >>, fallback |-> FALSE, additional |-> << >> ]

(***************************************************************************)
(* The audio router (src/unnamed/part_003).                                *)
(***************************************************************************)
\* minSimilarity: z.number().optional().default(0.7); an omitted value is
\* << >>, a given one << m >> (thousandths).
DefaultMinSimilarity(minSimilarity) ==
  IF minSimilarity = << >> THEN 700 ELSE minSimilarity[1]

\* allFingerprints.map(record => ({id, name, duration, similarity}))
RECURSIVE MapMatches(_, _)
MapMatches(records, fingerprint) ==
  IF Len(records) = 0 THEN << >>
  ELSE << [ id |-> records[1].id, name |-> records[1].name,
            duration |-> records[1].duration,
            similarity |-> calculateSimilarity(fingerprint,
                                               records[1].fingerprint) ] >>
         \o MapMatches(Tail(records), fingerprint)

\* AtLeast with match.similarity > minSimilarity
AtLeastStrict(similarity, minSimilarity) ==
  1000 * similarity.matches > minSimilarity * similarity.total

\* match.similarity >= minSimilarity, similarity = matches / total
AtLeast(similarity, minSimilarity) ==
  1000 * similarity.matches >= minSimilarity * similarity.total

\* b.similarity - a.similarity <= 0: a stays before b
NotBelow(a, b) ==
  a.similarity.matches * b.similarity.total
    >= b.similarity.matches * a.similarity.total

\* .sort((a, b) => b.similarity - a.similarity): stable, similarity descending
RECURSIVE InsertBySimilarity(_, _)
InsertBySimilarity(sorted, match) ==
  IF Len(sorted) = 0 THEN << match >>
  ELSE IF NotBelow(sorted[1], match)
    THEN << sorted[1] >> \o InsertBySimilarity(Tail(sorted), match)
  ELSE << match >> \o sorted

RECURSIVE SortBySimilarity(_)
SortBySimilarity(matches) ==
  IF Len(matches) = 0 THEN << >>
  ELSE InsertBySimilarity(
         SortBySimilarity(SubSeq(matches, 1, Len(matches) - 1)),
         matches[Len(matches)])

\* The identifyAudio query on the rows of the table.
identifyAudio(records, input) ==
  LET minSimilarity == DefaultMinSimilarity(input.minSimilarity)
      keep(match) == AtLeast(match.similarity, minSimilarity)
  IN  SortBySimilarity(SelectSeq(MapMatches(records, input.fingerprint), keep))

\* The createFingerprint mutation: the inserted row, its id from the
\* autoincrement column.
InsertedRow(records, input) ==
  [ id |-> Len(records) + 1, name |-> input.name,
    fingerprint |-> input.fingerprint, duration |-> input.duration ]

\* The identify page's query input (page.tsx lines 366-372).
IdentifyPageInput(pageFeatures) ==
  [ fingerprint |-> IF pageFeatures = << >> THEN << >>
                    ELSE generateFingerprint(pageFeatures[1]),
    minSimilarity |-> << 500 >> ]

(***************************************************************************)
(* The record page (src/src/app/record/page.tsx lines 12-346).             *)
(*                                                                         *)
(* recordPage holds the component state: audioFeatures (<< >> is null),    *)
(* duration (audioBuffer.duration, in samples at SAMPLE_RATE), name,       *)
(* isProcessing, error and success (<< >> is null), and what the page      *)
(* waits for: the recorder's state, an upload being read, the mutations    *)
(* not yet answered.                                                       *)
(***************************************************************************)
\* String.prototype.trim on a string of letters and spaces
RECURSIVE TrimStart(_)
TrimStart(s) ==
  IF Len(s) > 0 /\ s[1] = " " THEN TrimStart(Tail(s)) ELSE s

RECURSIVE TrimEnd(_)
TrimEnd(s) ==
  IF Len(s) > 0 /\ s[Len(s)] = " " THEN TrimEnd(SubSeq(s, 1, Len(s) - 1))
  ELSE s

Trim(s) == TrimEnd(TrimStart(s))

\* Math.round(duration), duration in samples at SAMPLE_RATE
RoundSeconds(duration) == (2 * duration + SAMPLE_RATE) \div (2 * SAMPLE_RATE)

\* processAudioData (lines 61-77), which runs without suspending:
\* setError(null), setDuration(audioBuffer.duration), then
\* extractAudioFeatures, which throws when one of its Web Audio calls does
\* (new AudioContext at audio.ts line 26, createBuffer at line 27); the
\* catch sets the error and leaves audioFeatures as it was; the finally
\* clears isProcessing.
ProcessAudioData(page, audioBuffer, throws) ==
  IF throws \/ CreateBufferThrows(audioBuffer.length)
    THEN [ page EXCEPT !.isProcessing = FALSE,
                       !.error = << "Error processing audio data" >>,
                       !.duration = audioBuffer.length ]
    ELSE [ page EXCEPT !.isProcessing = FALSE,
                       !.error = << >>,
                       !.duration = audioBuffer.length,
                       !.audioFeatures = << extractAudioFeatures(audioBuffer) >> ]

\* The input saveFingerprint gives to createFingerprint.mutateAsync
\* (lines 163-167)
SavedInput(page) ==
  [ name        |-> Trim(page.name),
    fingerprint |-> generateFingerprint(page.audioFeatures[1]),
    duration    |-> RoundSeconds(page.duration) ]

(***************************************************************************)
(* Bounds and input sets.                                                  *)
(***************************************************************************)
\* Most tokens in a fingerprint given to calculateSimilarity
MaxTokens == 2
\* Most peaks in a feature set given to generateFingerprint
MaxFeatures == 2
\* Most chunks in an analysed clip
MaxChunks == 2
\* Most rows in the fingerprint table
MaxStore == 2
\* Most chunks in a clip whose bass band is given to the selection
MaxBandChunks == 3
\* Most createFingerprint mutations the record page sends
MaxMutations == 1

\* "0.50:440:0": a well-formed token
TokenA == << "0", ".", "5", "0", ":", "4", "4", "0", ":", "0" >>

\* "0.50:450:0": 10 Hz from TokenA: matches it
TokenNearA == << "0", ".", "5", "0", ":", "4", "5", "0", ":", "0" >>

\* "0.40:880:0.1": a well-formed token matching neither TokenA nor TokenC
TokenB == << "0", ".", "4", "0", ":", "8", "8", "0", ":", "0", ".", "1" >>

\* "0.90:2000:1": a well-formed token matching neither TokenA nor TokenB
TokenC == << "0", ".", "9", "0", ":", "2", "0", "0", "0", ":", "1" >>

\* "1:2": two fields
TokenTwoFields == << "1", ":", "2" >>

\* "::": three empty fields
TokenEmptyFields == << ":", ":" >>

\* "a:b:c": three non-numeric fields
TokenLetters == << "a", ":", "b", ":", "c" >>

EmptyToken == << >>

SimilarityTokens ==
  { TokenA, TokenNearA, TokenB, EmptyToken, TokenTwoFields, TokenEmptyFields,
    TokenLetters }

SeqsUpTo(S, n) == UNION { [1..k -> S] : k \in 0..n }

\* Every string made of at most MaxTokens tokens joined by "|": "" and the
\* strings with a leading, trailing or doubled "|" are among them.
SimilarityInputs == { Join(ts, "|") : ts \in SeqsUpTo(SimilarityTokens, MaxTokens) }

\* The strings each of them is compared with, in either argument position.
ReferenceTokens == { TokenA, TokenB, EmptyToken, TokenEmptyFields, TokenLetters }

ReferenceInputs == { Join(ts, "|") : ts \in SeqsUpTo(ReferenceTokens, 2) }

\* Feature triples: amplitude (thousandths), frequency (1/FFT_SIZE Hz), time
\* (samples).  They cover exact values, roundings down and up, and the ties
\* of each of the three roundings.
TriplePool ==
  { [peak |-> 500,  freq |-> 440 * FFT_SIZE,        time |-> 0],
    [peak |-> 4,    freq |-> 445 * FFT_SIZE,        time |-> FFT_SIZE],
    [peak |-> 5,    freq |-> 445 * FFT_SIZE - 1,    time |-> TIME_WINDOW],
    [peak |-> 1234, freq |-> BinFrequency(1),       time |-> 2 * FFT_SIZE],
    [peak |-> 996,  freq |-> BinFrequency(93),      time |-> 3 * TIME_WINDOW - 1],
    [peak |-> 0,    freq |-> 0,                     time |-> 13 * SAMPLE_RATE] }

\* The feature sets given to generateFingerprint: up to MaxFeatures peaks,
\* with frequencies and timestamps possibly shorter than peaks.
CodecInputs ==
  UNION { { [ peaks       |-> [ i \in DOMAIN ts |-> ts[i].peak ],
              frequencies |-> [ i \in 1..fl |-> ts[i].freq ],
              timestamps  |-> [ i \in 1..tl |-> ts[i].time ] ] :
              fl \in 0..Len(ts), tl \in 0..Len(ts) } :
          ts \in SeqsUpTo(TriplePool, MaxFeatures) }

\* Spectra (amplitudes of ModelBins, thousandths).  An amplitude is
\* Math.pow(10, x / 20) of a 32-bit float x read from the Float32Array
\* (lines 57-60, 125-128): it is 0 for -Infinity and never equal to
\* PEAK_THRESHOLD or to half of it (the values next to 0.05 are
\* 0.049999992 and 0.050000003, those next to 0.025 are 0.024999992 and
\* 0.025000003), so the spectra hold values on either side of the two
\* thresholds and none on them.
Silence == << 0, 0, 0, 0, 0, 0 >>

\* below PEAK_THRESHOLD * 0.5 everywhere
Faint == << 24, 24, 24, 24, 24, 24 >>

\* between the two thresholds everywhere
Soft == << 30, 30, 30, 30, 30, 30 >>

\* below PEAK_THRESHOLD everywhere
Quiet == << 49, 49, 49, 49, 49, 49 >>

Loud == << 900, 600, 400, 500, 300, 900 >>

Mixed == << 0, 100, 700, 49, 51, 0 >>

\* one bin of the high band
Single == << 0, 0, 0, 0, 200, 0 >>

SpectrumPool == { Silence, Faint, Soft, Quiet, Loud, Mixed, Single }

\* Buffer lengths that createBuffer (line 27) accepts: the shortest and the
\* longest buffer of each chunk count up to MaxChunks.
ClipLengths ==
  { (k - 1) * FFT_SIZE + 1 : k \in 1..MaxChunks }
    \cup { k * FFT_SIZE : k \in 1..MaxChunks }

\* new Float32Array(0): no sample, no spectrum read
ClipEmpty == [ length |-> 0, spectra |-> << >>, fallback |-> Silence ]

ClipInputs ==
  UNION { { [ length |-> n, spectra |-> sp, fallback |-> fb ] :
              sp \in [1..ChunkCount(n) -> SpectrumPool], fb \in SpectrumPool } :
          n \in ClipLengths }
    \cup { ClipEmpty }

\* Spectra that excite the two bass bins only, at 0 or above the threshold.
BandSpectra ==
  { << 0, a, b, 0, 0, 0 >> : a \in { 0, 100, 200 }, b \in { 0, 150, 200 } }

\* The clips whose bass candidates the selection is applied to.
BandClips ==
  UNION { { [ length |-> k * FFT_SIZE, spectra |-> sp, fallback |-> Silence ] :
              sp \in [1..k -> BandSpectra] } :
          k \in 1..MaxBandChunks }

\* Longer clips with both bass bins above the threshold in every chunk:
\* their candidates fall into MIN_PEAKS windows and into one more.
LongBandClips ==
  { [ length |-> k * FFT_SIZE,
      spectra |-> [ i \in 1..k |-> << 0, 100, 200, 0, 0, 0 >> ],
      fallback |-> Silence ] : k \in { MIN_PEAKS + 1, MIN_PEAKS + 2 } }

\* The clips the identify page analyses.
ClipSilence == [ length |-> FFT_SIZE, spectra |-> << Silence >>, fallback |-> Silence ]

ClipTone == [ length |-> FFT_SIZE, spectra |-> << Mixed >>, fallback |-> Silence ]

PageClips == { ClipSilence, ClipTone }

FingerprintAB == Join(<< TokenA, TokenB >>, "|")

FingerprintAC == Join(<< TokenA, TokenC >>, "|")

FingerprintABC == Join(<< TokenA, TokenB, TokenC >>, "|")

\* Feature sets with a frequency and a time for every peak, and the same
\* set with the frequency of the index-th peak 5 Hz higher.
AlignedInputs ==
  { [ peaks       |-> [ i \in DOMAIN ts |-> ts[i].peak ],
      frequencies |-> [ i \in DOMAIN ts |-> ts[i].freq ],
      timestamps  |-> [ i \in DOMAIN ts |-> ts[i].time ] ] :
      ts \in SeqsUpTo(TriplePool, MaxFeatures) \ { << >> } }

ShiftedInputs ==
  UNION { { [ features |-> f,
              shifted  |-> [ index |-> i,
                             features |-> [ f EXCEPT !.frequencies[i] =
                                                       @ + 5 * FFT_SIZE ] ] ] :
              i \in DOMAIN f.peaks } :
          f \in AlignedInputs }

\* The audio buffers the record page decodes: one chunk (46 ms, 0 s when
\* rounded) with one high bin, and eleven chunks (511 ms, 1 s when rounded)
\* with the bass bins in the first chunk only.
RecordClipShort ==
  [ length |-> FFT_SIZE, spectra |-> << Single >>, fallback |-> Silence ]

RecordClipLong ==
  [ length |-> 11 * FFT_SIZE,
    spectra |-> [ k \in 1..11 |-> IF k = 1 THEN Mixed ELSE Silence ],
    fallback |-> Soft ]

RecordClips == { RecordClipShort, RecordClipLong }

\* What the user types into the name field: "", " ", "a", " b ".
NameInputs == { << >>, << " " >>, << "a" >>, << " ", "b", " " >> }

\* The inputs of the createFingerprint mutation.
RecordInputs ==
  { [ name |-> "ab",   fingerprint |-> FingerprintAB,  duration |-> 1 ],
    [ name |-> "ac",   fingerprint |-> FingerprintAC,  duration |-> 2 ],
    [ name |-> "abc",  fingerprint |-> FingerprintABC, duration |-> 3 ],
    [ name |-> "tone", duration |-> 0,
      fingerprint |-> generateFingerprint(extractAudioFeatures(ClipTone)) ] }

\* The inputs of a direct identifyAudio query: minSimilarity omitted or given.
QueryInputs ==
  { [ fingerprint |-> f, minSimilarity |-> m ] :
      f \in { FingerprintAB, TokenA },
      m \in { << >>, << 0 >>, << 500 >>, << 1000 >> } }

(***************************************************************************)
(* State.                                                                  *)
(***************************************************************************)
VARIABLES
  pc,            \* the next step of the pipeline under analysis
  clip,          \* the clip given to extractAudioFeatures
  features,      \* the AudioFeatures given to generateFingerprint
  fingerprint,   \* the string generateFingerprint returned
  decoded,       \* fingerprint.split("|").map(f => f.split(":").map(Number))
  fingerprint1,  \* first argument of calculateSimilarity
  fingerprint2,  \* second argument of calculateSimilarity
  similarity,    \* what calculateSimilarity returned: [matches, total]
  increments,    \* the <<i, j>> at which calculateSimilarity ran matches++
  store,         \* the rows of the audio_fingerprints table, in id order
  pageFeatures,  \* the identify page's audioFeatures: << >> is null
  lastQuery,     \* the last identifyAudio query: its input, rows and result
  analysis,      \* what the last extractAudioFeatures call went through
  band,          \* one band's candidates and what was selected from them
  shifted,       \* a second feature set, compared with `features`
  reverse,       \* calculateSimilarity(fingerprint2, fingerprint1)
  recordPage,    \* the record page's component state
  mutations      \* the createFingerprint mutations the record page sent

vars == << pc, clip, features, fingerprint, decoded, fingerprint1,
           fingerprint2, similarity, increments, store, pageFeatures,
           lastQuery, analysis, band, shifted, reverse, recordPage,
           mutations >>

NoFeatures == [ peaks |-> << >>, frequencies |-> << >>, timestamps |-> << >> ]

NoClip == [ length |-> 0, spectra |-> << >>, fallback |-> Silence ]

NoSimilarity == [ matches |-> 0, total |-> 1 ]

NoQuery == [ asked |-> FALSE, from |-> "none",
             input |-> [ fingerprint |-> << >>, minSimilarity |-> << >> ],
             rows |-> << >>, matches |-> << >> ]

pipelineVars == << clip, features, fingerprint, decoded, fingerprint1,
                   fingerprint2, similarity, increments, analysis, band,
                   shifted, reverse >>

systemVars == << store, pageFeatures, lastQuery, recordPage, mutations >>

\* No second feature set, no call in the other direction.
NoShift == [ index |-> 0, features |-> NoFeatures ]

NoReverse == [ called |-> FALSE, similarity |-> NoSimilarity,
               increments |-> << >> ]

\* The record page after mount (page.tsx lines 13-24): audioFeatures null
\* (<< >>), duration 0, name "", no recorder running, nothing awaited.
NoRecordPage == [ audioFeatures |-> << >>, duration |-> 0, name |-> << >>,
                  isRecording |-> FALSE, isProcessing |-> FALSE,
                  error |-> << >>, success |-> << >>,
                  recorder |-> "inactive", uploading |-> FALSE,
                  inFlight |-> 0 ]

TraceIdle ==
  /\ analysis = NoAnalysis /\ band = NoBand
  /\ shifted = NoShift /\ reverse = NoReverse

PipelineIdle ==
  /\ clip = NoClip /\ features = NoFeatures
  /\ fingerprint = << >> /\ decoded = << >>
  /\ fingerprint1 = << >> /\ fingerprint2 = << >>
  /\ similarity = NoSimilarity /\ increments = << >>
  /\ TraceIdle

SystemIdle ==
  /\ store = << >> /\ pageFeatures = << >> /\ lastQuery = NoQuery
  /\ recordPage = NoRecordPage /\ mutations = << >>

(***************************************************************************)
(* The pure functions, applied step by step to drawn inputs.               *)
(***************************************************************************)
\* extractAudioFeatures(audioData)
Extract ==
  /\ pc = "extract"
  /\ IF CreateBufferThrows(clip.length)
       THEN /\ analysis' = [ NoAnalysis EXCEPT !.threw = TRUE ]
            /\ pc' = "failed"
            /\ UNCHANGED features
       ELSE /\ analysis' = Analysis(clip)
            /\ features' = extractAudioFeatures(clip)
            /\ pc' = "encode"
  /\ UNCHANGED << clip, fingerprint, decoded, fingerprint1, fingerprint2,
                  similarity, increments, band, shifted, reverse,
                  systemVars >>

\* generateFingerprint(features)
Encode ==
  /\ pc = "encode"
  /\ fingerprint' = generateFingerprint(features)
  /\ pc' = "decode"
  /\ UNCHANGED << clip, features, decoded, fingerprint1, fingerprint2,
                  similarity, increments, analysis, band, shifted, reverse,
                  systemVars >>

\* The split-and-parse of calculateSimilarity (lines 197-198) on the
\* encoded string.
Decode ==
  /\ pc = "decode"
  /\ decoded' = ParseFeatures(fingerprint)
  /\ pc' = "selfcompare"
  /\ UNCHANGED << clip, features, fingerprint, fingerprint1, fingerprint2,
                  similarity, increments, analysis, band, shifted, reverse,
                  systemVars >>

\* calculateSimilarity(fingerprint, fingerprint)
SelfCompare ==
  /\ pc = "selfcompare"
  /\ fingerprint1' = fingerprint
  /\ fingerprint2' = fingerprint
  /\ similarity' = calculateSimilarity(fingerprint, fingerprint)
  /\ increments' = MatchIncrements(fingerprint, fingerprint)
  /\ pc' = "done"
  /\ UNCHANGED << clip, features, fingerprint, decoded, analysis, band,
                  shifted, reverse, systemVars >>

\* calculateSimilarity(fingerprint1, fingerprint2)
Compare ==
  /\ pc = "compare"
  /\ similarity' = calculateSimilarity(fingerprint1, fingerprint2)
  /\ increments' = MatchIncrements(fingerprint1, fingerprint2)
  /\ pc' = "done"
  /\ UNCHANGED << clip, features, fingerprint, decoded, fingerprint1,
                  fingerprint2, analysis, band, shifted, reverse,
                  systemVars >>

\* generateFingerprint of the two feature sets
EncodePair ==
  /\ pc = "encodepair"
  /\ fingerprint1' = generateFingerprint(features)
  /\ fingerprint2' = generateFingerprint(shifted.features)
  /\ pc' = "compare"
  /\ UNCHANGED << clip, features, fingerprint, decoded, similarity,
                  increments, analysis, band, shifted, reverse, systemVars >>

\* calculateSimilarity(fingerprint2, fingerprint1), after the call in the
\* first direction
CompareReverse ==
  /\ pc = "done"
  /\ ~reverse.called
  /\ reverse' = [ called     |-> TRUE,
                  similarity |-> calculateSimilarity(fingerprint2, fingerprint1),
                  increments |-> MatchIncrements(fingerprint2, fingerprint1) ]
  /\ UNCHANGED << pc, clip, features, fingerprint, decoded, fingerprint1,
                  fingerprint2, similarity, increments, analysis, band,
                  shifted, systemVars >>

\* Lines 74-79 for the bass band: the sort and
\* selectPeaksWithTimeDistribution on the candidates the chunk loop pushed.
SelectBand ==
  /\ pc = "select"
  /\ band' = BandSelection(band.candidates)
  /\ pc' = "selected"
  /\ UNCHANGED << clip, features, fingerprint, decoded, fingerprint1,
                  fingerprint2, similarity, increments, analysis, shifted,
                  reverse, systemVars >>

(***************************************************************************)
(* The router and the identify page.                                       *)
(***************************************************************************)
\* createFingerprint mutation (part_003 lines 9-27)
CreateFingerprint ==
  /\ pc = "system"
  /\ Len(store) < MaxStore
  /\ \E input \in RecordInputs : store' = Append(store, InsertedRow(store, input))
  /\ UNCHANGED << pc, pipelineVars, recordPage, mutations, pageFeatures, lastQuery >>

\* identifyAudio query (part_003 lines 29-53), called directly
IdentifyAudio ==
  /\ pc = "system"
  /\ \E input \in QueryInputs :
       lastQuery' = [ asked |-> TRUE, from |-> "caller", input |-> input,
                      rows |-> store,
                      matches |-> identifyAudio(store, input) ]
  /\ UNCHANGED << pc, pipelineVars, recordPage, mutations, store, pageFeatures >>

\* The identify page's processAudioData (page.tsx lines 395-408)
PageProcessAudio ==
  /\ pc = "system"
  /\ \E c \in PageClips : pageFeatures' = << extractAudioFeatures(c) >>
  /\ UNCHANGED << pc, pipelineVars, recordPage, mutations, store, lastQuery >>

\* The identify page's useQuery (page.tsx lines 366-372), enabled once
\* audioFeatures is set.
PageIdentify ==
  /\ pc = "system"
  /\ pageFeatures # << >>
  /\ LET input == IdentifyPageInput(pageFeatures)
     IN  lastQuery' = [ asked |-> TRUE, from |-> "page", input |-> input,
                        rows |-> store,
                        matches |-> identifyAudio(store, input) ]
  /\ UNCHANGED << pc, pipelineVars, recordPage, mutations, store, pageFeatures >>

(***************************************************************************)
(* The record page's handlers.  One recording and one upload are followed  *)
(* at a time.                                                              *)
(***************************************************************************)
recordOnly == << pc, pipelineVars, store, pageFeatures, lastQuery >>

\* startRecording (lines 79-117): getUserMedia resolves or rejects.
StartRecording ==
  /\ pc = "record"
  /\ ~recordPage.isProcessing /\ ~recordPage.isRecording
  /\ recordPage.recorder = "inactive"
  /\ \E granted \in BOOLEAN :
       recordPage' =
         IF granted
           THEN [ recordPage EXCEPT !.recorder = "recording",
                                    !.isRecording = TRUE ]
           ELSE [ recordPage EXCEPT !.error = << "Error accessing microphone" >> ]
  /\ UNCHANGED << recordOnly, mutations >>

\* stopRecording (lines 119-124), or the timer of lines 107-112
StopRecording ==
  /\ pc = "record"
  /\ recordPage.recorder = "recording"
  /\ recordPage' = [ recordPage EXCEPT !.recorder = "stopped",
                                       !.isRecording = FALSE ]
  /\ UNCHANGED << recordOnly, mutations >>

\* mediaRecorder.onstop (lines 90-101): decodeAudioData rejects, or
\* resolves with a buffer that processAudioData is given.
RecorderStopped ==
  /\ pc = "record"
  /\ recordPage.recorder = "stopped"
  /\ \E decodes \in BOOLEAN, audioBuffer \in RecordClips, throws \in BOOLEAN :
       recordPage' =
         IF decodes
           THEN [ ProcessAudioData(recordPage, audioBuffer, throws)
                    EXCEPT !.recorder = "inactive" ]
           ELSE [ recordPage EXCEPT !.recorder = "inactive" ]
  /\ UNCHANGED << recordOnly, mutations >>

\* handleFileUpload up to its first await (lines 126-134), a file chosen
HandleFileUpload ==
  /\ pc = "record"
  /\ ~recordPage.isProcessing /\ ~recordPage.uploading
  /\ recordPage' = [ recordPage EXCEPT !.isProcessing = TRUE,
                                       !.error = << >>,
                                       !.uploading = TRUE ]
  /\ UNCHANGED << recordOnly, mutations >>

\* handleFileUpload from the decode on (lines 134-149)
FileRead ==
  /\ pc = "record"
  /\ recordPage.uploading
  /\ \E decodes \in BOOLEAN, audioBuffer \in RecordClips, throws \in BOOLEAN :
       recordPage' =
         IF decodes
           THEN [ ProcessAudioData(recordPage, audioBuffer, throws)
                    EXCEPT !.uploading = FALSE ]
           ELSE [ recordPage EXCEPT !.error = << "Error processing audio file" >>,
                                    !.isProcessing = FALSE,
                                    !.uploading = FALSE ]
  /\ UNCHANGED << recordOnly, mutations >>

\* onChange of the name field (line 284), rendered once audioFeatures is set
SetName ==
  /\ pc = "record"
  /\ recordPage.audioFeatures # << >>
  /\ \E value \in NameInputs : recordPage' = [ recordPage EXCEPT !.name = value ]
  /\ UNCHANGED << recordOnly, mutations >>

\* saveFingerprint (lines 152-168), from the button of lines 294-298:
\* rendered once audioFeatures is set, disabled while processing or with a
\* blank name.
SaveFingerprint ==
  /\ pc = "record"
  /\ recordPage.audioFeatures # << >>
  /\ ~recordPage.isProcessing /\ Trim(recordPage.name) # << >>
  /\ Len(mutations) < MaxMutations
  /\ IF Trim(recordPage.name) = << >>
       THEN /\ recordPage' = [ recordPage EXCEPT !.error =
                                 << "Please enter a name for the fingerprint" >> ]
            /\ UNCHANGED mutations
       ELSE IF recordPage.audioFeatures = << >>
         THEN /\ recordPage' = [ recordPage EXCEPT !.error =
                                   << "No audio data to save" >> ]
              /\ UNCHANGED mutations
       ELSE /\ mutations' = Append(mutations, SavedInput(recordPage))
            /\ recordPage' = [ recordPage EXCEPT !.inFlight = @ + 1 ]
  /\ UNCHANGED recordOnly

\* onSuccess of the mutation (lines 27-35)
MutationSucceeds ==
  /\ pc = "record"
  /\ recordPage.inFlight > 0
  /\ recordPage' = [ recordPage EXCEPT
                       !.success = << "Fingerprint saved successfully!" >>,
                       !.name = << >>,
                       !.audioFeatures = << >>,
                       !.inFlight = @ - 1 ]
  /\ UNCHANGED << recordOnly, mutations >>

\* onError of the mutation (lines 36-38)
MutationFails ==
  /\ pc = "record"
  /\ recordPage.inFlight > 0
  /\ recordPage' = [ recordPage EXCEPT !.error = << "error.message" >>,
                                       !.inFlight = @ - 1 ]
  /\ UNCHANGED << recordOnly, mutations >>

(***************************************************************************)
(* Specifications.                                                         *)
(***************************************************************************)
\* The router with the identify page.
Init == pc = "system" /\ PipelineIdle /\ SystemIdle

Next == CreateFingerprint \/ IdentifyAudio \/ PageProcessAudio \/ PageIdentify

Spec == Init /\ [][Next]_vars

\* calculateSimilarity on every pair of input strings.
InitSimilarity ==
  /\ pc = "compare"
  /\ \/ fingerprint1 \in SimilarityInputs /\ fingerprint2 \in ReferenceInputs
     \/ fingerprint1 \in ReferenceInputs /\ fingerprint2 \in SimilarityInputs
  /\ clip = NoClip /\ features = NoFeatures
  /\ fingerprint = << >> /\ decoded = << >>
  /\ similarity = NoSimilarity /\ increments = << >>
  /\ TraceIdle
  /\ SystemIdle

NextSimilarity == Compare \/ CompareReverse

SpecSimilarity == InitSimilarity /\ [][NextSimilarity]_vars

\* generateFingerprint on every input feature set, then the parse and the
\* comparison of the string with itself.
InitCodec ==
  /\ pc = "encode"
  /\ features \in CodecInputs
  /\ clip = NoClip
  /\ fingerprint = << >> /\ decoded = << >>
  /\ fingerprint1 = << >> /\ fingerprint2 = << >>
  /\ similarity = NoSimilarity /\ increments = << >>
  /\ TraceIdle
  /\ SystemIdle

NextCodec == Encode \/ Decode \/ SelfCompare

SpecCodec == InitCodec /\ [][NextCodec]_vars

\* Two feature sets differing in one frequency, encoded and compared in
\* both directions.
InitShift ==
  /\ pc = "encodepair"
  /\ \E x \in ShiftedInputs : features = x.features /\ shifted = x.shifted
  /\ clip = NoClip
  /\ fingerprint = << >> /\ decoded = << >>
  /\ fingerprint1 = << >> /\ fingerprint2 = << >>
  /\ similarity = NoSimilarity /\ increments = << >>
  /\ analysis = NoAnalysis /\ band = NoBand /\ reverse = NoReverse
  /\ SystemIdle

NextShift == EncodePair \/ Compare \/ CompareReverse

SpecShift == InitShift /\ [][NextShift]_vars

\* The selection within one band, on the candidates of every input clip.
InitSelect ==
  /\ pc = "select"
  /\ clip \in BandClips \cup LongBandClips
  /\ band = [ NoBand EXCEPT !.candidates = BandPeaks(clip, 1) ]
  /\ features = NoFeatures
  /\ fingerprint = << >> /\ decoded = << >>
  /\ fingerprint1 = << >> /\ fingerprint2 = << >>
  /\ similarity = NoSimilarity /\ increments = << >>
  /\ analysis = NoAnalysis /\ shifted = NoShift /\ reverse = NoReverse
  /\ SystemIdle

NextSelect == SelectBand

SpecSelect == InitSelect /\ [][NextSelect]_vars

\* The record page from its mount.
InitRecord == pc = "record" /\ PipelineIdle /\ SystemIdle

NextRecord ==
  \/ StartRecording \/ StopRecording \/ RecorderStopped
  \/ HandleFileUpload \/ FileRead
  \/ SetName \/ SaveFingerprint
  \/ MutationSucceeds \/ MutationFails

SpecRecord == InitRecord /\ [][NextRecord]_vars

\* extractAudioFeatures on every input clip, then the same pipeline.
InitExtract ==
  /\ pc = "extract"
  /\ clip \in ClipInputs
  /\ features = NoFeatures
  /\ fingerprint = << >> /\ decoded = << >>
  /\ fingerprint1 = << >> /\ fingerprint2 = << >>
  /\ similarity = NoSimilarity /\ increments = << >>
  /\ TraceIdle
  /\ SystemIdle

NextExtract == Extract \/ Encode \/ Decode \/ SelfCompare

SpecExtract == InitExtract /\ [][NextExtract]_vars

(***************************************************************************)
(* Properties of calculateSimilarity (SpecSimilarity).                     *)
(***************************************************************************)
Tokens1 == Split(fingerprint1, "|")

Tokens2 == Split(fingerprint2, "|")

\* A token that does not consist of three numeric fields: a field count
\* other than three, or a field that is empty or not a number.
Malformed(token) ==
  LET fields == Split(token, ":")
  IN  \/ Len(fields) # 3
      \/ \E k \in DOMAIN fields :
           Len(fields[k]) = 0 \/ ParseNumber(fields[k]).nan

WellFormed(tokens) == \A i \in DOMAIN tokens : ~Malformed(tokens[i])

\* C1: for all input strings, empty and malformed ones included, the score
\* calculateSimilarity returns is matches / total with total never 0 and
\* 0 <= matches <= total, so it lies in [0, 1]; "" against "" scores 0.
C1_ScoreInUnitRange ==
  pc = "done" =>
    /\ similarity.total > 0
    /\ similarity.matches >= 0
    /\ similarity.matches <= similarity.total
    /\ (fingerprint1 = << >> /\ fingerprint2 = << >> => similarity.matches = 0)

\* A comparison of a string holding a malformed token, scored strictly
\* between 0 and 1.
C1_Witness ==
  /\ pc = "done"
  /\ ~WellFormed(Tokens1)
  /\ 0 < similarity.matches /\ similarity.matches < similarity.total
  /\ \A n \in DOMAIN increments : ~Malformed(Tokens1[increments[n][1]])

\* The combined similarity of two well-formed tokens as the claim writes it,
\* ((1 - |da|) + (1 - |df| / 100) + (1 - |dt| / 0.5)) / 3 > 0.7, every term
\* scaled by 100000.
CombinedAbove(tokenA, tokenB) ==
  LET a == MapNumber(Split(tokenA, ":"))
      b == MapNumber(Split(tokenB, ":"))
      peakSim == 100000 - 100 * Abs(a[1].v - b[1].v)
      freqSim == 100000 - Abs(a[2].v - b[2].v)
      timeSim == 100000 - 200 * Abs(a[3].v - b[3].v)
  IN  10 * (peakSim + freqSim + timeSim) > 7 * 3 * 100000

Partners(i) == { j \in DOMAIN Tokens2 : CombinedAbove(Tokens1[i], Tokens2[j]) }

MatchedCount == Cardinality({ i \in DOMAIN Tokens1 : Partners(i) # {} })

\* C5: for well-formed fingerprints A and B the score is
\* matchedCount / max(|A|, |B|), a triple of A being matched exactly when
\* some triple of B has combined similarity strictly above 0.7, and counted
\* once however many triples of B qualify.
C5_ScoreIsMatchedOverMax ==
  (pc = "done" /\ WellFormed(Tokens1) /\ WellFormed(Tokens2)) =>
    /\ similarity.matches = MatchedCount
    /\ similarity.total = Max(Len(Tokens1), Len(Tokens2))

\* Two well-formed fingerprints, a triple of the first with two qualifying
\* partners in the second, and a triple of the first with none.
C5_Witness ==
  /\ pc = "done" /\ WellFormed(Tokens1) /\ WellFormed(Tokens2)
  /\ \E i \in DOMAIN Tokens1 : Cardinality(Partners(i)) >= 2
  /\ \E i \in DOMAIN Tokens1 : Partners(i) = {}
  /\ similarity.matches = 1

\* C6: a token that does not consist of three numeric fields is skipped: no
\* matches++ ever runs for it, in either fingerprint.
C6_MalformedNeverMatches ==
  pc = "done" =>
    \A n \in DOMAIN increments :
      /\ ~Malformed(Tokens1[increments[n][1]])
      /\ ~Malformed(Tokens2[increments[n][2]])

(***************************************************************************)
(* Properties of generateFingerprint and of the round trip (SpecCodec).    *)
(***************************************************************************)
Encoded == pc \in { "decode", "selfcompare", "done" }

Decoded == pc \in { "selfcompare", "done" }

\* The indices of peaks that have a frequency and a time, ascending.
Kept(f) ==
  LET idx == { i \in DOMAIN f.peaks :
                 i <= Len(f.frequencies) /\ i <= Len(f.timestamps) }
  IN  [ n \in 1..Cardinality(idx) |->
          CHOOSE i \in idx : Cardinality({ j \in idx : j < i }) = n - 1 ]

IndexAligned(f) ==
  Len(f.frequencies) = Len(f.peaks) /\ Len(f.timestamps) = Len(f.peaks)

\* C2: the fingerprint of a non-empty index-aligned feature set, compared
\* with itself, scores at least 0.99.
C2_SelfSimilarity ==
  (pc = "done" /\ Len(features.peaks) >= 1 /\ IndexAligned(features)) =>
    100 * similarity.matches >= 99 * similarity.total

\* A self comparison of the fingerprint of two peaks.
C2_Witness ==
  /\ pc = "done" /\ Len(features.peaks) = 2 /\ IndexAligned(features)
  /\ features.peaks[1] # features.peaks[2]
  /\ fingerprint1 = fingerprint /\ fingerprint2 = fingerprint
  /\ similarity = [ matches |-> 2, total |-> 2 ]

\* C3: splitting the fingerprint on "|" and ":" and parsing the fields gives
\* one triple per non-skipped index, in index order, each within the
\* rounding tolerance of the original: amplitude 0.005, frequency 5 Hz,
\* time 0.05 s.  A parsed field is in thousandths; the frequency comparison
\* |d / 1000 - f / FFT_SIZE| <= 5 is scaled by 125 * FFT_SIZE, the time
\* comparison by 1000 * SAMPLE_RATE.  (With no index kept the string is "" and the split holds no
\* triple at all.)
C3_RoundTrip ==
  Decoded =>
    LET kept == Kept(features)
    IN  IF Len(kept) = 0
          THEN \A n \in DOMAIN decoded : Len(decoded[n]) < 3
          ELSE /\ Len(decoded) = Len(kept)
               /\ \A n \in DOMAIN kept :
                    LET d == decoded[n]
                        i == kept[n]
                    IN  /\ Len(d) = 3
                        /\ ~d[1].nan /\ ~d[2].nan /\ ~d[3].nan
                        /\ Abs(d[1].v - features.peaks[i]) <= 5
                        /\ Abs(d[2].v * (FFT_SIZE \div 8)
                                 - 125 * features.frequencies[i])
                             <= 5 * 125 * FFT_SIZE
                        /\ Abs(d[3].v * SAMPLE_RATE - 1000 * features.timestamps[i])
                             <= 50 * SAMPLE_RATE

\* A round trip with one index skipped in which every field of the kept
\* triple was changed by the rounding.
C3_Witness ==
  /\ Decoded
  /\ Len(features.peaks) = 2 /\ Len(Kept(features)) = 1
  /\ decoded[1][1].v # features.peaks[1]
  /\ decoded[1][2].v * (FFT_SIZE \div 8) # 125 * features.frequencies[1]
  /\ decoded[1][3].v * SAMPLE_RATE # 1000 * features.timestamps[1]

BarCount(s) == Cardinality({ i \in DOMAIN s : s[i] = "|" })

\* C9: the fingerprint is the tokens of the indices that have a frequency
\* and a time, in index order, joined by "|": no leading, trailing or doubled
\* "|", and "" when there are no peaks.
C9_OneTokenPerKeptIndex ==
  Encoded =>
    LET kept == Kept(features)
        pieces == Split(fingerprint, "|")
    IN  /\ Len(kept) = 0 => fingerprint = << >>
        /\ Len(features.peaks) = 0 => fingerprint = << >>
        /\ Len(kept) > 0 =>
             /\ BarCount(fingerprint) = Len(kept) - 1
             /\ Len(pieces) = Len(kept)
             /\ \A n \in DOMAIN kept :
                  /\ Len(pieces[n]) > 0
                  /\ pieces[n] = Token(features.peaks[kept[n]],
                                       features.frequencies[kept[n]],
                                       features.timestamps[kept[n]])
        /\ fingerprint # << >> =>
             /\ fingerprint[1] # "|"
             /\ fingerprint[Len(fingerprint)] # "|"
             /\ \A i \in 1..(Len(fingerprint) - 1) :
                  ~(fingerprint[i] = "|" /\ fingerprint[i + 1] = "|")

\* Two peaks, the second without a time: one token, no "|".
C9_Witness ==
  /\ Encoded
  /\ Len(features.peaks) = 2 /\ Len(features.frequencies) = 2
  /\ Len(features.timestamps) = 1
  /\ fingerprint # << >> /\ BarCount(fingerprint) = 0

(***************************************************************************)
(* Properties of extractAudioFeatures (SpecExtract).                       *)
(***************************************************************************)
Extracted == pc # "extract"

\* The bin of some analysed spectrum that a triple describes: a bin of
\* chunk k of the main pass at time k * FFT_SIZE, or a bin of the fallback
\* spectrum at time 0.
DescribesBin(amplitude, frequency, time) ==
  \E n \in DOMAIN ModelBins :
    /\ frequency = BinFrequency(ModelBins[n])
    /\ \/ \E k \in 0..(ChunkCount(clip.length) - 1) :
            time = k * FFT_SIZE /\ clip.spectra[k + 1][n] = amplitude
       \/ time = 0 /\ clip.fallback[n] = amplitude

\* C4: the three returned sequences have the same length on every path, and
\* index i of the three is the amplitude, frequency and time of the i-th
\* selected peak, a bin of an analysed spectrum.
C4_ParallelSequences ==
  Extracted =>
    LET selected == MainPeaks(clip)
                      \o (IF FallbackRuns(clip) THEN findAdditionalPeaks(clip)
                          ELSE << >>)
    IN  /\ Len(features.peaks) = Len(features.frequencies)
        /\ Len(features.peaks) = Len(features.timestamps)
        /\ Len(features.peaks) = Len(selected)
        /\ \A i \in DOMAIN features.peaks :
             /\ i \in DOMAIN features.frequencies
             /\ i \in DOMAIN features.timestamps
             /\ selected[i] = [ amplitude |-> features.peaks[i],
                                frequency |-> features.frequencies[i],
                                time |-> features.timestamps[i] ]
             /\ DescribesBin(features.peaks[i], features.frequencies[i],
                             features.timestamps[i])

\* The main pass and the fallback pass both contributed peaks, the main
\* pass from a chunk after the first.
C4_Witness ==
  /\ Extracted
  /\ Len(MainPeaks(clip)) > 0 /\ FallbackRuns(clip)
  /\ Len(features.peaks) > Len(MainPeaks(clip))
  /\ \E i \in DOMAIN features.timestamps : features.timestamps[i] > 0

\* C7: every returned peak, from the main pass or from the fallback pass,
\* has its frequency within [MIN_FREQUENCY, MAX_FREQUENCY] Hz.
C7_FrequenciesInBands ==
  Extracted =>
    \A i \in DOMAIN features.frequencies :
      /\ features.frequencies[i] >= MIN_FREQUENCY * FFT_SIZE
      /\ features.frequencies[i] <= MAX_FREQUENCY * FFT_SIZE

\* No bin above the threshold in either pass: PEAK_THRESHOLD in the chunk
\* loop, half of it in findAdditionalPeaks.
Silent(c) ==
  /\ \A k \in DOMAIN c.spectra : \A n \in DOMAIN ModelBins :
       c.spectra[k][n] <= PEAK_THRESHOLD
  /\ \A n \in DOMAIN ModelBins : 2 * c.fallback[n] <= PEAK_THRESHOLD

\* C10: a clip with no bin above the threshold in either pass yields no
\* peak, the fingerprint "", and calculateSimilarity("", "") = 0.
C10_SilenceEndToEnd ==
  Silent(clip) =>
    /\ Extracted => features = NoFeatures
    /\ Encoded => fingerprint = << >>
    /\ pc = "done" =>
         /\ fingerprint1 = << >> /\ fingerprint2 = << >>
         /\ similarity.matches = 0
         /\ similarity.total > 0

\* A silent clip of at least one chunk taken through extraction, encoding
\* and the comparison.
C10_Witness ==
  /\ pc = "done" /\ Silent(clip)
  /\ ChunkCount(clip.length) >= 1
  /\ \A k \in DOMAIN clip.spectra : clip.spectra[k] = Silence
  /\ clip.fallback = Silence
  /\ features = NoFeatures /\ fingerprint = << >>
  /\ similarity = [ matches |-> 0, total |-> 1 ]

(***************************************************************************)
(* Properties of the identifyAudio query (Spec).                           *)
(***************************************************************************)
\* a.similarity >= b.similarity as fractions
ScoreAtLeast(a, b) == a.matches * b.total >= b.matches * a.total

\* C8: identifyAudio returns exactly the rows whose similarity to the query
\* is at least the minimum (none missing, none extra, each once), ordered by
\* non-increasing similarity; the minimum is 0.7 when omitted, and the
\* identify page asks with 0.5.
C8_IdentifyExactlyAbove ==
  lastQuery.asked =>
    LET q == lastQuery.input.fingerprint
        m == IF lastQuery.input.minSimilarity = << >> THEN 700
             ELSE lastQuery.input.minSimilarity[1]
        rows == lastQuery.rows
        result == lastQuery.matches
        score(r) == calculateSimilarity(q, r.fingerprint)
        above(r) == 1000 * score(r).matches >= m * score(r).total
    IN  /\ \A k \in DOMAIN result :
             \E i \in DOMAIN rows :
               /\ rows[i].id = result[k].id
               /\ rows[i].name = result[k].name
               /\ rows[i].duration = result[k].duration
               /\ result[k].similarity = score(rows[i])
               /\ above(rows[i])
        /\ \A i \in DOMAIN rows :
             above(rows[i]) => \E k \in DOMAIN result : result[k].id = rows[i].id
        /\ \A k, l \in DOMAIN result : k # l => result[k].id # result[l].id
        /\ \A k, l \in DOMAIN result :
             k < l => ScoreAtLeast(result[k].similarity, result[l].similarity)
        /\ lastQuery.from = "page" => lastQuery.input.minSimilarity = << 500 >>

\* A query over two rows that returns both in the other order, the last
\* one scoring exactly the minimum.
C8_Witness ==
  /\ lastQuery.asked
  /\ Len(lastQuery.rows) = 2 /\ Len(lastQuery.matches) = 2
  /\ lastQuery.matches[1].id = 2 /\ lastQuery.matches[2].id = 1
  /\ lastQuery.input.minSimilarity = << 500 >>
  /\ lastQuery.matches[2].similarity = [ matches |-> 1, total |-> 2 ]

(***************************************************************************)
(* Properties of the chunk loop (SpecExtract).                             *)
(***************************************************************************)
\* C11: extractAudioFeatures analyses exactly one frame per FFT_SIZE-sample
\* chunk of the buffer, a partial last chunk included, in chunk order, the
\* k-th frame (from 0) at time k * FFT_SIZE / SAMPLE_RATE; a buffer of fewer
\* than FFT_SIZE samples yields exactly one frame, at time 0, never none.
C11_OneFramePerChunk ==
  Extracted =>
    LET frames == analysis.frames
    IN  /\ Len(frames) * FFT_SIZE >= clip.length
        /\ (Len(frames) - 1) * FFT_SIZE < clip.length
        /\ \A k \in DOMAIN frames :
             /\ frames[k].time = (k - 1) * FFT_SIZE
             /\ frames[k].spectrum = clip.spectra[k]
        /\ clip.length < FFT_SIZE =>
             Len(frames) = 1 /\ frames[1].time = 0

(***************************************************************************)
(* Properties of the codec and the comparison together (SpecShift).        *)
(***************************************************************************)
\* C12: of two feature sets that are equal but for one peak's frequency,
\* which is 5 Hz higher in the second, the two tokens of that peak have a
\* combined similarity above 0.7, and calculateSimilarity counts the peak as
\* matched in both directions.
C12_FiveHertzShiftMatches ==
  (pc = "done" /\ shifted.index # 0) =>
    LET i == shifted.index
    IN  /\ Len(Tokens1) = Len(features.peaks)
        /\ Len(Tokens2) = Len(features.peaks)
        /\ CombinedAbove(Tokens1[i], Tokens2[i])
        /\ CombinedAbove(Tokens2[i], Tokens1[i])
        /\ \E j \in DOMAIN Tokens2 : << i, j >> \in Range(increments)
        /\ reverse.called =>
             \E j \in DOMAIN Tokens1 : << i, j >> \in Range(reverse.increments)

\* The shift moved the peak into the next 10 Hz bucket: the two tokens
\* differ, and both calls counted the peak.
C12_Witness ==
  /\ pc = "done" /\ shifted.index # 0 /\ reverse.called
  /\ Tokens1[shifted.index] # Tokens2[shifted.index]
  /\ << shifted.index, shifted.index >> \in Range(increments)
  /\ << shifted.index, shifted.index >> \in Range(reverse.increments)
  /\ Len(Tokens1) >= 2

(***************************************************************************)
(* Properties of selectPeaksWithTimeDistribution (SpecSelect).             *)
(***************************************************************************)
\* floor(time / 0.05 s) of a peak, its time in samples
WindowOf(peak) == (20 * peak.time) \div SAMPLE_RATE

WindowsOf(peaks) == { WindowOf(peaks[i]) : i \in DOMAIN peaks }

Selected == pc = "selected"

\* C13: the list given to selectPeaksWithTimeDistribution holds the band's
\* candidates by amplitude descending, and the first phase keeps exactly one
\* peak of every non-empty 0.05 s window and nothing else, a peak whose
\* amplitude is at least that of every candidate of the same window.
C13_StrongestOfEachWindow ==
  Selected =>
    LET candidates == band.candidates
        picked == band.picked
    IN  /\ Len(band.sorted) = Len(candidates)
        /\ Range(band.sorted) = Range(candidates)
        /\ \A k \in 1..(Len(band.sorted) - 1) :
             band.sorted[k].amplitude >= band.sorted[k + 1].amplitude
        /\ Len(picked) = Cardinality(WindowsOf(candidates))
        /\ \A w \in WindowsOf(candidates) :
             \E p \in DOMAIN picked :
               /\ WindowOf(picked[p]) = w
               /\ picked[p] \in Range(candidates)
               /\ \A q \in DOMAIN picked : WindowOf(picked[q]) = w => q = p
               /\ \A c \in DOMAIN candidates :
                    WindowOf(candidates[c]) = w =>
                      picked[p].amplitude >= candidates[c].amplitude

\* Two non-empty windows, one of them with a weaker candidate pushed before
\* the strongest one.
C13_Witness ==
  /\ Selected
  /\ Cardinality(WindowsOf(band.candidates)) >= 2
  /\ Len(band.picked) = 2
  /\ \E c \in DOMAIN band.candidates :
       /\ WindowOf(band.candidates[c]) = WindowOf(band.picked[1])
       /\ band.candidates[c].amplitude < band.picked[1].amplitude
       /\ \E d \in DOMAIN band.candidates :
            d > c /\ band.candidates[d] = band.picked[1]

\* The peaks the backfill added: what follows the first phase's picks in
\* the returned list.
Backfilled == SubSeq(band.selected, Len(band.picked) + 1, Len(band.selected))

Analysed == pc \in { "encode", "decode", "selfcompare", "done" }

\* The selections of the bands, one after the other in band order.
RECURSIVE MainSelectionFrom(_)
MainSelectionFrom(b) ==
  IF b > Len(analysis.bands) THEN << >>
  ELSE analysis.bands[b].selected \o MainSelectionFrom(b + 1)

\* The bins of the fallback spectrum above half the threshold.
LoudFallbackBins == { n \in DOMAIN ModelBins : 2 * clip.fallback[n] > PEAK_THRESHOLD }

\* The n-th triple of the returned features
Triple(n) == [ amplitude |-> features.peaks[n],
               frequency |-> features.frequencies[n],
               time      |-> features.timestamps[n] ]

\* C15: the fallback pass runs exactly when the bands' selections hold fewer
\* than MIN_PEAKS peaks together; then the output is these peaks followed
\* by one peak at time 0 for every bin of the fallback spectrum above half
\* the threshold, in bin order, bins already among the main peaks included;
\* otherwise the output is the main selection and nothing else.
C15_FallbackIffFewPeaks ==
  Analysed =>
    LET main == MainSelectionFrom(1)
        extra == Len(features.peaks) - Len(main)
    IN  /\ analysis.fallback <=> Len(main) < MIN_PEAKS
        /\ Len(features.peaks) >= Len(main)
        /\ \A n \in DOMAIN main : Triple(n) = main[n]
        /\ extra = (IF Len(main) < MIN_PEAKS
                      THEN Cardinality(LoudFallbackBins) ELSE 0)
        /\ \A k \in 1..extra :
             \E n \in LoudFallbackBins :
               /\ Cardinality({ x \in LoudFallbackBins : x < n }) = k - 1
               /\ Triple(Len(main) + k) =
                    [ amplitude |-> clip.fallback[n],
                      frequency |-> ModelBins[n] * SAMPLE_RATE,
                      time      |-> 0 ]

\* The fallback ran after a main pass that selected peaks, and appended a
\* bin the main pass had already selected at time 0.
C15_Witness ==
  /\ Analysed /\ analysis.fallback
  /\ Len(MainSelectionFrom(1)) > 0
  /\ Len(features.peaks) > Len(MainSelectionFrom(1))
  /\ \E n \in 1..Len(MainSelectionFrom(1)) :
       \E k \in (Len(MainSelectionFrom(1)) + 1)..Len(features.peaks) :
         Triple(n) = Triple(k)

\* The band (from 1) whose [min, max] Hz holds bin n's frequency
\* n * SAMPLE_RATE / FFT_SIZE; no bin lies on a limit shared by two bands.
BandsOfBin(n) ==
  { b \in DOMAIN FREQUENCY_BANDS :
      /\ ModelBins[n] * SAMPLE_RATE >= FREQUENCY_BANDS[b].min * FFT_SIZE
      /\ ModelBins[n] * SAMPLE_RATE <= FREQUENCY_BANDS[b].max * FFT_SIZE }

\* Bin n of the k-th frame as a peak
BinPeak(k, n) == [ amplitude |-> clip.spectra[k][n],
                   frequency |-> ModelBins[n] * SAMPLE_RATE,
                   time      |-> (k - 1) * FFT_SIZE ]

BothCalled == pc = "done" /\ reverse.called

\* score(A, B) = score(B, A), as fractions
SameScore ==
  similarity.matches * reverse.similarity.total
    = reverse.similarity.matches * similarity.total

\* The triples of the first fingerprint that token j of the second is a
\* partner of.
PartnersOf(j) == { i \in DOMAIN Tokens1 : j \in Partners(i) }

\* No triple of either fingerprint has two partners in the other.
OneToOne ==
  /\ \A i \in DOMAIN Tokens1 : Cardinality(Partners(i)) <= 1
  /\ \A j \in DOMAIN Tokens2 : Cardinality(PartnersOf(j)) <= 1

\* C17 as stated: for well-formed fingerprints with the same number of
\* tokens score(A, B) equals score(B, A), the two differing only between
\* fingerprints of different token counts.
C17_SymmetricOnEqualLengths ==
  (BothCalled /\ WellFormed(Tokens1) /\ WellFormed(Tokens2)
     /\ Len(Tokens1) = Len(Tokens2)) => SameScore

\* C17 as amended: for well-formed fingerprints with the same number of
\* tokens, and no triple of either with more than one partner in the
\* other, score(A, B) equals score(B, A).
C17_SymmetricWhenOneToOne ==
  (BothCalled /\ WellFormed(Tokens1) /\ WellFormed(Tokens2)
     /\ Len(Tokens1) = Len(Tokens2) /\ OneToOne) => SameScore

\* Two different well-formed fingerprints of two tokens each, the first
\* token of each the partner of the second token of the other, scored 1
\* both ways.
C17_Witness ==
  /\ BothCalled /\ WellFormed(Tokens1) /\ WellFormed(Tokens2)
  /\ Len(Tokens1) = 2 /\ Len(Tokens2) = 2 /\ OneToOne
  /\ fingerprint1 # fingerprint2
  /\ << 1, 2 >> \in Range(increments)
  /\ << 1, 2 >> \in Range(reverse.increments)
  /\ similarity = [ matches |-> 2, total |-> 2 ]
  /\ reverse.similarity = [ matches |-> 2, total |-> 2 ]

\* |X|: the number of tokens of a fingerprint string, one more than its
\* number of "|".
TokenCount(s) == Cardinality({ k \in DOMAIN s : s[k] = "|" }) + 1

\* C18: calculateSimilarity(A, B) never exceeds |A| / max(|A|, |B|); so a
\* query with fewer tokens than the fingerprint it is compared with never
\* scores 1.
C18_ScoreBoundedByQueryLength ==
  pc = "done" =>
    LET a == TokenCount(fingerprint1)
        b == TokenCount(fingerprint2)
    IN  /\ similarity.matches * Max(a, b) <= a * similarity.total
        /\ a < b => similarity.matches < similarity.total

\* Matching does not use up the triples of B: a query of two tokens that
\* both match the only token of the other fingerprint scores 1.
C18_Witness ==
  /\ pc = "done"
  /\ TokenCount(fingerprint1) = 2 /\ TokenCount(fingerprint2) = 1
  /\ increments = << << 1, 1 >>, << 2, 1 >> >>
  /\ similarity = [ matches |-> 2, total |-> 2 ]

(***************************************************************************)
(* Properties of the record page (SpecRecord).                             *)
(***************************************************************************)
\* What a save of each clip would send, apart from the name.
ClipRecords ==
  { [ fingerprint |-> generateFingerprint(extractAudioFeatures(c)),
      duration    |-> RoundSeconds(c.length) ] : c \in RecordClips }

\* C19: every createFingerprint mutation the record page sends has a name
\* that is not blank and has no blank at either end, a whole number of
\* seconds as duration, and a fingerprint and a duration that are those of
\* one and the same clip.
C19_SavedRecordIsOfOneClip ==
  \A k \in DOMAIN mutations :
    /\ mutations[k].name # << >>
    /\ mutations[k].name[1] # " "
    /\ mutations[k].name[Len(mutations[k].name)] # " "
    /\ mutations[k].duration \in Nat
    /\ [ fingerprint |-> mutations[k].fingerprint,
         duration    |-> mutations[k].duration ] \in ClipRecords

=============================================================================
